---- MODULE Spec2Model ----
(***************************************************************************)
(* Nested-route resolution and incremental view update                    *)
(* (routing/src/nested_router.rs).                                        *)
(*                                                                         *)
(* The outlet stack, the owners (scopes) with the OutletContext each one  *)
(* provides, the per-outlet channel / trigger / params signal and the     *)
(* <Outlet/> consumers are the state.  NestedRoutesView::build and        *)
(* ::rebuild, the Outlet component function and the reactive closure it   *)
(* returns are the actions.                                                *)
(*                                                                         *)
(* A match chain is a sequence of match nodes [id, params]; the empty     *)
(* sequence is `None` (no route matched).  Depths are 1-based here        *)
(* (`*items` = depth - 1).  Owner handle 1 is `outer_owner`.  A "cell" is *)
(* the handle of the trigger, params signal, Sender and Receiver slot     *)
(* that build_nested_route creates together for one outlet.               *)
(***************************************************************************)
EXTENDS Integers, Sequences, FiniteSets, TLC

\* ---------------------------------------------------------------- bounds
MaxRebuilds == 2

\* The route definitions the matcher works on, as the parent of each
\* RouteMatchId (0 for a top-level route):
\*   1 = /a   3 = /a/x   5 = /a/x/1   7 = /a/x/2
\*   2 = /b   4 = /a/y   6 = /a/y/1
RouteParent == <<0, 0, 1, 1, 3, 4, 3>>

RouteIds == DOMAIN RouteParent

ParamVals == {0, 1}

\* the ids from the top-level route down to route r
RECURSIVE IdPath(_)
IdPath(r) == IF RouteParent[r] = 0 THEN <<r>>
             ELSE Append(IdPath(RouteParent[r]), r)

\* to_params() of the match at depth d when the path carries value p
ParamsAt(d, p) == <<d, p>>

\* the match chain ending in route r, for a path carrying value p
Chain(r, p) ==
    [d \in 1..Len(IdPath(r)) |-> [id |-> IdPath(r)[d], params |-> ParamsAt(d, p)]]

\* every Option<match chain> the matcher may return; <<>> is None
Chains == {<<>>} \cup {Chain(r, p) : r \in RouteIds, p \in ParamVals}

\* the chains of the paths that carry value 0
PlainChains == {<<>>} \cup {Chain(r, 0) : r \in RouteIds}

NoParams == <<0, 0>>

NoView == [id |-> 0, cell |-> 0, n |-> 0]

\* nothing rendered yet by an Outlet closure
NoRender == [view |-> NoView, owner |-> 0]

OuterOwner == 1

VARIABLES
    outlets,      \* NestedRouteViewState.outlets : Seq(OutletContext)
    view,         \* NestedRouteViewState.view : "none" | "fallback" | "outlet"
    ownerParent,  \* owner handle -> parent owner handle (0 for outer_owner)
    ownerCtx,     \* owner handle -> <<>> or <<OutletContext provided there>>
    paramsSig,    \* cell -> value of the ArcRwSignal<Params>
    fired,        \* cell -> number of ArcTrigger::trigger calls
    chan,         \* cell -> queue of boxed view closures in the mpsc channel
    sent,         \* cell -> number of tx.send calls
    rxSlot,       \* cell -> TRUE while the Mutex<Option<Receiver>> is Some
    cstate,       \* cell -> "none" | "mounted" | "tracking" (Outlet closure)
    woken,        \* cell -> the closure's trigger fired since its last run
    rendered,     \* cell -> boxed view the Outlet closure last ran, with its owner
    invokes,      \* view token -> number of times the constructor ran
    log,          \* events of the last build / rebuild, in program order
    route,        \* the last new_match
    pc,           \* "init" before build, "built" after
    diag,         \* "none" or the diagnostic of the panic that ended the run
    last,         \* the last operation (for a mount: the owner it ran under)
    nreb,         \* number of rebuilds so far
    prevLen       \* length of the chain matched before the last rebuild

vars == <<outlets, view, ownerParent, ownerCtx, paramsSig, fired, chan, sent,
          rxSlot, cstate, woken, rendered, invokes, log, route, pc, diag,
          last, nreb, prevLen>>


\* ------------------------------------------------------- machine record
\* The operators below thread one record through the code of a handler:
\* the fields are the variables the handler touches plus `tmp`, the local
\* `new_outlets` vector of rebuild_nested_route.
Machine ==
    [outlets |-> outlets, tmp |-> <<>>, ownerParent |-> ownerParent,
     ownerCtx |-> ownerCtx, paramsSig |-> paramsSig, fired |-> fired,
     chan |-> chan, sent |-> sent, rxSlot |-> rxSlot, cstate |-> cstate,
     woken |-> woken, rendered |-> rendered, invokes |-> invokes,
     log |-> <<>>, diag |-> diag]

Ev(op, depth, cell, v, p, stack) ==
    [op |-> op, depth |-> depth, cell |-> cell, view |-> v, params |-> p,
     stack |-> stack]

\* the cells of the entries of an outlet vector
CellsOf(os) == [i \in 1..Len(os) |-> os[i].tx]

Emit(m, e) == [m EXCEPT !.log = Append(@, e)]

\* ------------------------------------------------- library primitives
\* Owner::child : a new owner whose parent is `parent`; its handle is
\* Len(ownerParent) of the result.
OwnerChild(m, parent) ==
    [m EXCEPT !.ownerParent = Append(@, parent),
              !.ownerCtx = Append(@, <<>>)]

\* provide_context under `parent.with`: the value replaces whatever
\* OutletContext that owner provided before.
ProvideContext(m, parent, outlet) ==
    [m EXCEPT !.ownerCtx[parent] = <<outlet>>]

\* use_context : the nearest OutletContext provided by `s` or an ancestor
RECURSIVE use_context(_, _)
use_context(m, s) ==
    IF s = 0 THEN <<>>
    ELSE IF m.ownerCtx[s] # <<>> THEN m.ownerCtx[s]
    ELSE use_context(m, m.ownerParent[s])

\* ------------------------------------------------- build_nested_route
\* ArcRwSignal::new(params), ArcTrigger::new(), mpsc::channel(),
\* Arc::new(Mutex::new(Some(rx)))
NewOutletCell(m, node) ==
    [m EXCEPT !.paramsSig = Append(@, node.params),
              !.fired = Append(@, 0),
              !.chan = Append(@, <<>>),
              !.sent = Append(@, 0),
              !.rxSlot = Append(@, TRUE),
              !.cstate = Append(@, "none"),
              !.woken = Append(@, FALSE),
              !.rendered = Append(@, NoRender)]

\* mutant: the outlet is inserted at the front of the vector
PushOutletFront(m, outlet, d, intoTmp) ==
    LET m1 == Emit(m, Ev("build", d, outlet.tx, NoView, NoParams, CellsOf(m.outlets)))
    IN  IF intoTmp THEN [m1 EXCEPT !.tmp = <<outlet>> \o @]
        ELSE [m1 EXCEPT !.outlets = <<outlet>> \o @]

\* outlets.push(outlet.clone()) on the vector build_nested_route was given
PushOutlet(m, outlet, d, intoTmp) ==
    LET m1 == Emit(m, Ev("build", d, outlet.tx, NoView, NoParams, CellsOf(m.outlets)))
    IN  IF intoTmp THEN [m1 EXCEPT !.tmp = Append(@, outlet)]
        ELSE [m1 EXCEPT !.outlets = Append(@, outlet)]

\* tx.send(Box::new(move || owner.with(|| view.choose().into_any())))
SendView(m, cell, id, owner, d) ==
    LET v == [id |-> id, cell |-> cell, n |-> m.sent[cell] + 1]
        m1 == [m EXCEPT !.chan[cell] = Append(@, [view |-> v, owner |-> owner]),
                        !.sent[cell] = @ + 1]
    IN  Emit(m1, Ev("send", d, cell, v, m.paramsSig[cell], <<>>))

\* mutant: build sends nothing, the first view waits for a rebuild
SkipInitialView(m, outlet, d) == m

\* the block that sends the initial view down the new outlet's channel
SendInitialView(m, outlet, d) ==
    SendView(m, outlet.tx, outlet.id, outlet.owner, d)

\* mutant: the context is provided in the outlet's own owner
ShareOutletInOwn(m, parent, outlet) ==
    ProvideContext(m, outlet.owner, outlet)

\* parent.with(|| provide_context(OutletContext { .. }))
ShareOutlet(m, parent, outlet) ==
    ProvideContext(m, parent, outlet)

RECURSIVE build_nested_route(_, _, _, _, _)
build_nested_route(m, chain, d, parent, intoTmp) ==
    LET m1 == OwnerChild(m, parent)
        owner == Len(m1.ownerParent)
        m2 == NewOutletCell(m1, chain[d])
        cell == Len(m2.chan)
        outlet == [id |-> chain[d].id, trigger |-> cell, params |-> cell,
                   owner |-> owner, tx |-> cell, rx |-> cell]
        m3 == PushOutlet(m2, outlet, d, intoTmp)
        m4 == SendInitialView(m3, outlet, d)
        m5 == ShareOutlet(m4, parent, outlet)
    IN  IF d < Len(chain)
        THEN build_nested_route(m5, chain, d + 1, owner, intoTmp)
        ELSE m5

\* ----------------------------------------------- rebuild_nested_route
\* mutant: the params are set only on the branch that keeps the route
SetParamsIfSame(m, d, node) ==
    IF node.id # m.outlets[d].id THEN m
    ELSE LET cell == m.outlets[d].params
             m1 == [m EXCEPT !.paramsSig[cell] = node.params]
         IN  Emit(m1, Ev("params", d, cell, NoView, m.paramsSig[cell], <<>>))

\* current.params.set(self.to_params().into_iter().collect())
SetParams(m, d, node) ==
    LET cell == m.outlets[d].params
        m1 == [m EXCEPT !.paramsSig[cell] = node.params]
    IN  Emit(m1, Ev("params", d, cell, NoView, m.paramsSig[cell], <<>>))

\* mutant: a change of params alone counts as a change of route
RouteChangedOrParams(m, node, d) ==
    \/ node.id # m.outlets[d].id
    \/ node.params # m.paramsSig[m.outlets[d].params]

\* id != current.id
RouteChanged(m, node, d) == node.id # m.outlets[d].id

\* mutant: the triggers of all outlets in the stack are notified
NotifyAllTriggers(m, cell, d) ==
    LET cs == {m.outlets[i].trigger : i \in 1..Len(m.outlets)}
        m1 == [m EXCEPT !.fired = [c \in DOMAIN @ |->
                                      IF c \in cs THEN @[c] + 1 ELSE @[c]],
                        !.woken = [c \in DOMAIN @ |->
                                      IF c \in cs THEN m.cstate[c] = "tracking"
                                      ELSE @[c]]]
    IN  Emit(m1, Ev("fire", d, cell, NoView, m.paramsSig[m.outlets[d].params], <<>>))

\* current.trigger.trigger() : every closure tracking the trigger is woken
NotifyTrigger(m, cell, d) ==
    LET m1 == [m EXCEPT !.fired[cell] = @ + 1,
                        !.woken[cell] = (m.cstate[cell] = "tracking")]
    IN  Emit(m1, Ev("fire", d, cell, NoView, m.paramsSig[m.outlets[d].params], <<>>))

\* mutant: the new view is sent but the trigger is not notified
SendWithoutNotify(m, d, id, owner) ==
    SendView(m, m.outlets[d].tx, id, owner, d)

\* current.tx.send(..); current.trigger.trigger();
SendAndNotify(m, d, id, owner) ==
    NotifyTrigger(SendView(m, m.outlets[d].tx, id, owner, d),
                  m.outlets[d].trigger, d)

\* outlets.truncate(*items + 1)
Truncate(m, d) ==
    LET m1 == [m EXCEPT !.outlets = SubSeq(@, 1, d)]
    IN  Emit(m1, Ev("truncate", d, 0, NoView, NoParams, CellsOf(m.outlets)))

\* mutant: the children are built while the stale outlets are still in the
\* stack, which is truncated only afterwards
BuildBeforeTruncate(m, chain, d, owner) ==
    IF d < Len(chain)
    THEN LET m1 == build_nested_route([m EXCEPT !.tmp = <<>>],
                                      chain, d + 1, owner, TRUE)
             m2 == Truncate(m1, d)
         IN  [m2 EXCEPT !.outlets = @ \o m2.tmp, !.tmp = <<>>]
    ELSE Truncate(m, d)

\* truncate, then build the children into new_outlets and extend
ReplaceSubtree(m, chain, d, owner) ==
    LET m1 == Truncate(m, d)
    IN  IF d < Len(chain)
        THEN LET m2 == build_nested_route([m1 EXCEPT !.tmp = <<>>],
                                          chain, d + 1, owner, TRUE)
             IN  [m2 EXCEPT !.outlets = @ \o m2.tmp, !.tmp = <<>>]
        ELSE m1

\* mutant: the new owner is made a child of outer_owner, not of `parent`
ReplaceRouteRootOwner(m, chain, d, parent) ==
    LET m1 == [m EXCEPT !.outlets[d].id = chain[d].id]
        m2 == OwnerChild(m1, OuterOwner)
        owner == Len(m2.ownerParent)
        m3 == [m2 EXCEPT !.outlets[d].owner = owner]
        m4 == SendAndNotify(m3, d, chain[d].id, owner)
    IN  ReplaceSubtree(m4, chain, d, owner)

\* mutant: the outlet keeps its old owner, the new view is boxed with it
ReplaceRouteSameOwner(m, chain, d, parent) ==
    LET m1 == [m EXCEPT !.outlets[d].id = chain[d].id]
        owner == m1.outlets[d].owner
        m4 == SendAndNotify(m1, d, chain[d].id, owner)
    IN  ReplaceSubtree(m4, chain, d, owner)

\* mutant: current.id is not updated
ReplaceRouteKeepId(m, chain, d, parent) ==
    LET m2 == OwnerChild(m, parent)
        owner == Len(m2.ownerParent)
        m3 == [m2 EXCEPT !.outlets[d].owner = owner]
        m4 == SendAndNotify(m3, d, chain[d].id, owner)
    IN  ReplaceSubtree(m4, chain, d, owner)

\* the `if id != current.id { .. return; }` block
ReplaceRoute(m, chain, d, parent) ==
    LET m1 == [m EXCEPT !.outlets[d].id = chain[d].id]
        m2 == OwnerChild(m1, parent)
        owner == Len(m2.ownerParent)
        m3 == [m2 EXCEPT !.outlets[d].owner = owner]
        m4 == SendAndNotify(m3, d, chain[d].id, owner)
    IN  ReplaceSubtree(m4, chain, d, owner)

\* mutant: appending below an existing outlet also notifies its trigger
BuildFromHereWakeParent(m, chain, d, parent) ==
    LET m1 == build_nested_route(m, chain, d, parent, FALSE)
    IN  IF d > 1 THEN NotifyTrigger(m1, m1.outlets[d - 1].trigger, d - 1)
        ELSE m1

\* the `None =>` arm of outlets.get_mut(*items): build from this depth on,
\* pushing onto the stack itself
BuildFromHere(m, chain, d, parent) ==
    build_nested_route(m, chain, d, parent, FALSE)

\* mutant: a match without a child cuts the stack down to its own depth
EndOfChainTruncate(m, d) == Truncate(m, d)

\* `if let Some(child) = child { .. }` with no child: there is no else arm
EndOfChain(m, d) == m

RECURSIVE rebuild_nested_route(_, _, _, _)
rebuild_nested_route(m, chain, d, parent) ==
    IF d > Len(m.outlets)
    THEN BuildFromHere(m, chain, d, parent)
    ELSE LET m1 == SetParams(m, d, chain[d])
         IN  IF RouteChanged(m, chain[d], d)
             THEN ReplaceRoute(m1, chain, d, parent)
             ELSE IF d < Len(chain)
                  THEN rebuild_nested_route(m1, chain, d + 1,
                                            m1.outlets[d].owner)
                  ELSE EndOfChain(m1, d)

\* ------------------------------------------------------------- Outlet
\* mutant: the receiver is used without being taken out of its slot
OutletFnNoTake(m, s) ==
    LET c == use_context(m, s)
    IN  IF c = <<>> THEN [m EXCEPT !.diag = "no_context"]
        ELSE [m EXCEPT !.cstate[c[1].rx] = "mounted"]

\* the component function: use_context().expect(..), rx.lock().take().expect(..)
OutletFn(m, s) ==
    LET c == use_context(m, s)
    IN  IF c = <<>> THEN [m EXCEPT !.diag = "no_context"]
        ELSE IF ~m.rxSlot[c[1].rx] THEN [m EXCEPT !.diag = "rx_taken"]
        ELSE [m EXCEPT !.rxSlot[c[1].rx] = FALSE,
                       !.cstate[c[1].rx] = "mounted"]

Bump(f, v) ==
    IF v \in DOMAIN f THEN [f EXCEPT ![v] = @ + 1] ELSE (v :> 1) @@ f

\* rx.try_recv() : the oldest boxed view in the channel, if any
TryRecv(q) == IF q = <<>> THEN <<>> ELSE <<Head(q)>>

\* mutant: the closure looks at the oldest view without removing it
OutletClosurePeek(m, c) ==
    LET r == TryRecv(m.chan[c])
        m1 == [m EXCEPT !.cstate[c] = "tracking", !.woken[c] = FALSE]
    IN  IF r = <<>> THEN [m1 EXCEPT !.diag = "empty_recv"]
        ELSE [m1 EXCEPT !.rendered[c] = r[1],
                        !.invokes = Bump(@, r[1].view)]

\* mutant: an empty receive is passed over in silence
OutletClosureSilent(m, c) ==
    LET r == TryRecv(m.chan[c])
        m1 == [m EXCEPT !.cstate[c] = "tracking", !.woken[c] = FALSE]
    IN  IF r = <<>> THEN m1
        ELSE [m1 EXCEPT !.chan[c] = Tail(@),
                        !.rendered[c] = r[1],
                        !.invokes = Bump(@, r[1].view)]

\* mutant: an empty receive wipes what the Outlet displayed before it panics
OutletClosureClear(m, c) ==
    LET r == TryRecv(m.chan[c])
        m1 == [m EXCEPT !.cstate[c] = "tracking", !.woken[c] = FALSE]
    IN  IF r = <<>> THEN [m1 EXCEPT !.diag = "empty_recv",
                                    !.rendered[c] = NoRender]
        ELSE [m1 EXCEPT !.chan[c] = Tail(@),
                        !.rendered[c] = r[1],
                        !.invokes = Bump(@, r[1].view)]

\* the closure returned by Outlet:
\* trigger.track(); rx.try_recv().map(|view| view()).unwrap()
OutletClosure(m, c) ==
    LET r == TryRecv(m.chan[c])
        m1 == [m EXCEPT !.cstate[c] = "tracking", !.woken[c] = FALSE]
    IN  IF r = <<>> THEN [m1 EXCEPT !.diag = "empty_recv"]
        ELSE [m1 EXCEPT !.chan[c] = Tail(@),
                        !.rendered[c] = r[1],
                        !.invokes = Bump(@, r[1].view)]

\* ---------------------------------------------------- NestedRoutesView
\* NestedRoutesView::build : the Some arm builds the outlets, calls Outlet
\* under outer_owner and builds the view it returns, which runs the closure
ViewBuild(m, chain) ==
    IF chain = <<>> THEN m
    ELSE LET m1 == build_nested_route(m, chain, 1, OuterOwner, FALSE)
             m2 == OutletFn(m1, OuterOwner)
         IN  IF m2.diag # "none" THEN m2
             ELSE OutletClosure(m2, use_context(m1, OuterOwner)[1].rx)

\* mutant: the None arm forgets to clear the outlet stack
RebuildNoneKeep(m) == m

\* the `None =>` arm of NestedRoutesView::rebuild : state.outlets.clear()
RebuildNone(m) == [m EXCEPT !.outlets = <<>>]

\* NestedRoutesView::rebuild
ViewRebuild(m, chain) ==
    IF chain = <<>> THEN RebuildNone(m)
    ELSE rebuild_nested_route(m, chain, 1, OuterOwner)

\* state.view after build
BuiltView(chain) == IF chain = <<>> THEN "fallback" ELSE "outlet"

\* state.view after rebuild: only the None arm touches it
RebuiltView(v, chain) == IF chain = <<>> THEN "fallback" ELSE v

Install(m) ==
    /\ outlets' = m.outlets
    /\ ownerParent' = m.ownerParent
    /\ ownerCtx' = m.ownerCtx
    /\ paramsSig' = m.paramsSig
    /\ fired' = m.fired
    /\ chan' = m.chan
    /\ sent' = m.sent
    /\ rxSlot' = m.rxSlot
    /\ cstate' = m.cstate
    /\ woken' = m.woken
    /\ rendered' = m.rendered
    /\ invokes' = m.invokes
    /\ diag' = m.diag

NoLast ==
    [op |-> "none", cell |-> 0, scope |-> 0, woken |-> FALSE, got |-> NoView]

Init ==
    /\ outlets = <<>>
    /\ view = "none"
    /\ ownerParent = <<0>>
    /\ ownerCtx = << <<>> >>
    /\ paramsSig = <<>>
    /\ fired = <<>>
    /\ chan = <<>>
    /\ sent = <<>>
    /\ rxSlot = <<>>
    /\ cstate = <<>>
    /\ woken = <<>>
    /\ rendered = <<>>
    /\ invokes = <<>>
    /\ log = <<>>
    /\ route = <<>>
    /\ pc = "init"
    /\ diag = "none"
    /\ last = NoLast
    /\ nreb = 0
    /\ prevLen = 0

Build(chain) ==
    /\ pc = "init"
    /\ LET m == ViewBuild(Machine, chain)
       IN  /\ Install(m)
           /\ log' = m.log
    /\ view' = BuiltView(chain)
    /\ route' = chain
    /\ pc' = "built"
    /\ last' = [NoLast EXCEPT !.op = "build"]
    /\ UNCHANGED <<nreb, prevLen>>

Rebuild(chain) ==
    /\ pc = "built"
    /\ diag = "none"
    /\ nreb < MaxRebuilds
    /\ LET m == ViewRebuild(Machine, chain)
       IN  /\ Install(m)
           /\ log' = m.log
    /\ view' = RebuiltView(view, chain)
    /\ route' = chain
    /\ last' = [NoLast EXCEPT !.op = "rebuild"]
    /\ nreb' = nreb + 1
    /\ prevLen' = Len(route)
    /\ UNCHANGED pc

\* scopes in which a view is currently rendered
RenderScopes ==
    {OuterOwner} \cup
    {rendered[c].owner : c \in {x \in 1..Len(chan) : rendered[x] # NoRender}}

\* an <Outlet/> is rendered under owner s
Mount(s) ==
    /\ pc = "built"
    /\ diag = "none"
    /\ LET m == OutletFn(Machine, s)
       IN  Install(m)
    /\ last' = [NoLast EXCEPT !.op = "mount",
                              !.scope = s,
                              !.cell = IF use_context(Machine, s) = <<>> THEN 0
                                       ELSE use_context(Machine, s)[1].rx]
    /\ UNCHANGED <<view, log, route, pc, nreb, prevLen>>

\* the closure of the Outlet that claimed cell c runs (again)
OutletRun(c) ==
    /\ pc = "built"
    /\ diag = "none"
    /\ cstate[c] # "none"
    /\ LET m == OutletClosure(Machine, c)
       IN  /\ Install(m)
           /\ last' = [op |-> "run", cell |-> c, scope |-> 0,
                       woken |-> (woken[c] \/ cstate[c] = "mounted"),
                       got |-> IF m.diag = "none" THEN m.rendered[c].view
                               ELSE NoView]
    /\ UNCHANGED <<view, log, route, pc, nreb, prevLen>>

\* the diff engine alone: the router builds, then rebuilds on path changes
NextDiff ==
    \/ \E chain \in Chains : Build(chain)
    \/ \E chain \in Chains : Rebuild(chain)

SpecDiff == Init /\ [][NextDiff]_vars

\* the diff engine together with the <Outlet/> consumers
Next ==
    \/ \E chain \in PlainChains : Build(chain)
    \/ \E chain \in PlainChains : Rebuild(chain)
    \/ \E s \in RenderScopes : Mount(s)
    \/ \E c \in 1..Len(chan) : OutletRun(c)

Spec == Init /\ [][Next]_vars


\* ================================================================ claims

\* a step of NestedRoutesView::rebuild
RebuildStep == nreb' = nreb + 1

StackIds(os) == [d \in 1..Len(os) |-> os[d].id]

ChainIds(chain) == [d \in 1..Len(chain) |-> chain[d].id]

LogOps == [i \in 1..Len(log) |-> log[i].op]

\* C1 - identity stability.  A rebuild whose match chain has the length of
\* the outlet stack and the same id at every depth sends no view, fires no
\* trigger, creates and replaces no owner and leaves the stack as it was;
\* afterwards the params signal of every depth holds the new match's params
\* and nothing else has changed.
C1_IdentityStability ==
    [][(RebuildStep /\ route' # <<>> /\ ChainIds(route') = StackIds(outlets))
        => /\ outlets' = outlets
           /\ chan' = chan
           /\ sent' = sent
           /\ fired' = fired
           /\ woken' = woken
           /\ ownerParent' = ownerParent
           /\ ownerCtx' = ownerCtx
           /\ rxSlot' = rxSlot
           /\ view' = view
           /\ \A d \in 1..Len(outlets) :
                paramsSig'[outlets[d].params] = route'[d].params
           /\ \A c \in 1..Len(paramsSig) :
                (\A d \in 1..Len(outlets) : outlets[d].params # c)
                    => paramsSig'[c] = paramsSig[c]]_vars

\* a same-id rebuild of a chain of two or more depths changed some params
C1_Witness ==
    /\ last.op = "rebuild"
    /\ Len(route) >= 2
    /\ Len(log) = Len(route)
    /\ Len(outlets) = Len(route)
    /\ \A i \in 1..Len(log) :
        /\ log[i].op = "params"
        /\ log[i].params # route[log[i].depth].params
    /\ \A d \in 1..Len(outlets) : paramsSig[outlets[d].params] = route[d].params

\* C2 - stack-length invariant, as claimed: after build and after every
\* rebuild with a Some match the outlet stack is no longer than the match
\* chain.
C2_StackLength ==
    (pc = "built" /\ route # <<>>) => Len(outlets) <= Len(route)

\* C3 - replacement ordering.  When a rebuild replaces the route at depth K
\* (the event "fire" at depth K), every later build_nested_route call of that
\* rebuild finds the stack already truncated to K, and the entries below K
\* in the final stack are exactly the outlets built by those calls.
C3_TruncateBeforeBuild ==
    \A i \in 1..Len(log) :
        log[i].op = "fire" =>
            /\ \A j \in (i + 1)..Len(log) :
                log[j].op = "build" =>
                    /\ Len(log[j].stack) = log[i].depth
                    /\ \E t \in (i + 1)..(j - 1) :
                        /\ log[t].op = "truncate"
                        /\ log[t].depth = log[i].depth
                        /\ \A k \in (log[i].depth + 1)..Len(log[t].stack) :
                            \A x \in 1..Len(log[j].stack) :
                                log[j].stack[x] # log[t].stack[k]
            /\ \A d \in (log[i].depth + 1)..Len(outlets) :
                \E j \in (i + 1)..Len(log) :
                    /\ log[j].op = "build"
                    /\ log[j].depth = d
                    /\ log[j].cell = outlets[d].tx

\* a replacement that removed deeper outlets and built new ones below it
C3_Witness ==
    \E i, t, j \in 1..Len(log) :
        /\ i < t /\ t < j
        /\ log[i].op = "fire"
        /\ log[t].op = "truncate"
        /\ log[t].depth = log[i].depth
        /\ Len(log[t].stack) > log[t].depth
        /\ log[j].op = "build"
        /\ log[j].depth = log[i].depth + 1
        /\ Len(outlets) = log[j].depth

\* C4 - fallback / placeholder invariant, as claimed: the top-level view is
\* the fallback exactly when the latest match is None, and the outlet stack
\* is empty whenever the latest match is None.
C4_FallbackIffNone ==
    pc = "built" =>
        /\ (view = "fallback") <=> (route = <<>>)
        /\ route = <<>> => outlets = <<>>

\* the outlets at depths 1..Len(chain) look as build_nested_route leaves
\* them for `chain` when every handle at or above firstOwner / firstCell is
\* new
FreshlyBuilt(os, chain, parentOf, ctxOf, sig, q, nsent, nfired, slot,
             firstOwner, firstCell) ==
    /\ Len(os) = Len(chain)
    /\ \A d \in 1..Len(os) :
        /\ os[d].id = chain[d].id
        /\ os[d].tx >= firstCell
        /\ os[d].rx = os[d].tx /\ os[d].trigger = os[d].tx
        /\ os[d].params = os[d].tx
        /\ \A e \in 1..Len(os) : e # d => os[e].tx # os[d].tx
        /\ sig[os[d].params] = chain[d].params
        /\ Len(q[os[d].tx]) = 1
        /\ q[os[d].tx][1].view.id = chain[d].id
        /\ q[os[d].tx][1].owner = os[d].owner
        /\ nsent[os[d].tx] = 1
        /\ nfired[os[d].trigger] = 0
        /\ slot[os[d].rx]
        /\ os[d].owner >= firstOwner
        /\ parentOf[os[d].owner] = (IF d = 1 THEN OuterOwner ELSE os[d - 1].owner)
        /\ ctxOf[parentOf[os[d].owner]] = <<os[d]>>

C6_LatestViewWins ==
    /\ \A c \in 1..Len(chan) : Len(chan[c]) <= 1
    /\ (last.op = "run" /\ last.got # NoView) =>
        /\ last.got.n = sent[last.cell]
        /\ chan[last.cell] = <<>>

\* C7 - single consumption, as claimed: no view constructor runs more than
\* once, and a run of the Outlet closure that no trigger fire (or mount)
\* preceded renders no view.
C7_SingleConsumption ==
    /\ \A v \in DOMAIN invokes : invokes[v] <= 1
    /\ (last.op = "run" /\ ~last.woken) => last.got = NoView

\* a step of the Outlet component function
MountStep ==
    /\ last'.op = "mount"
    /\ (rxSlot' # rxSlot \/ diag' # diag \/ cstate' # cstate)

\* C8 - double claim is fatal.  A receiver slot that was emptied is never
\* refilled; an Outlet mounted under an OutletContext that an Outlet has
\* already claimed panics with the receiver diagnostic, which is not the
\* one of a missing context, and leaves the first Outlet's closure, the
\* slot and the pending views as they were; a mount succeeds only on a
\* context that was never claimed.
C8_DoubleClaimFatal ==
    [][/\ \A c \in 1..Len(rxSlot) : ~rxSlot[c] => ~rxSlot'[c]
       /\ MountStep =>
            /\ last'.cell = 0 => diag' = "no_context"
            /\ (last'.cell # 0 /\ cstate[last'.cell] # "none") =>
                /\ diag' = "rx_taken"
                /\ diag' # "no_context"
                /\ chan' = chan
                /\ cstate' = cstate
                /\ rxSlot' = rxSlot
                /\ rendered' = rendered
                /\ woken' = woken
            /\ diag' = "none" =>
                /\ cstate[last'.cell] = "none"
                /\ rxSlot[last'.cell]
                /\ ~rxSlot'[last'.cell]]_vars

\* a second Outlet was mounted under a claimed context that holds a view
C8_Witness ==
    /\ last.op = "mount"
    /\ diag = "rx_taken"
    /\ last.cell # 0
    /\ cstate[last.cell] # "none"
    /\ chan[last.cell] # <<>>

\* C9 - send / fire pairing.  In a rebuild every trigger fire comes right
\* after the one send of that rebuild on the same outlet's channel, every
\* send on a channel that existed before the rebuild is followed by the
\* fire of that outlet's trigger, and for every outlet the number of views
\* sent equals the number of fires plus one.
C9_SendFirePairing ==
    /\ \A c \in 1..Len(chan) : sent[c] = fired[c] + 1
    /\ \A j \in 1..Len(log) :
        log[j].op = "fire" =>
            /\ j > 1
            /\ log[j - 1].op = "send"
            /\ log[j - 1].cell = log[j].cell
            /\ Cardinality({i \in 1..Len(log) :
                    log[i].op = "send" /\ log[i].cell = log[j].cell}) = 1
    /\ \A i \in 1..Len(log) :
        (log[i].op = "send" /\ log[i].view.n > 1) =>
            /\ i < Len(log)
            /\ log[i + 1].op = "fire"
            /\ log[i + 1].cell = log[i].cell

\* an outlet built earlier got a second view and its trigger fired once
C9_Witness ==
    \E j \in 1..Len(log) :
        /\ log[j].op = "fire"
        /\ sent[log[j].cell] = 2
        /\ fired[log[j].cell] = 1
        /\ Len(chan[log[j].cell]) = 2

\* C10 - params before trigger.  Whenever a rebuild fires the trigger of a
\* depth, the params signal of that depth was set earlier in the same
\* rebuild and holds the new match's params at the moment of the fire and
\* from then on.
C10_ParamsBeforeTrigger ==
    \A j \in 1..Len(log) :
        log[j].op = "fire" =>
            /\ log[j].params = route[log[j].depth].params
            /\ paramsSig[log[j].cell] = route[log[j].depth].params
            /\ \E i \in 1..(j - 1) :
                /\ log[i].op = "params"
                /\ log[i].cell = log[j].cell

\* a rebuild changed both the id and the params of a depth
C10_Witness ==
    \E i, j \in 1..Len(log) :
        /\ i < j
        /\ log[i].op = "params"
        /\ log[j].op = "fire"
        /\ log[i].cell = log[j].cell
        /\ log[i].params # route[log[j].depth].params
        /\ paramsSig[log[j].cell] = route[log[j].depth].params


\* a step in which the closure of the Outlet of cell last'.cell ran
RunStep ==
    /\ last'.op = "run"
    /\ (last' # last \/ chan' # chan \/ diag' # diag)

\* C11 - empty receive is fatal.  When the Outlet closure runs and the
\* channel holds no view, the run panics (the unwrap of the empty
\* try_recv) instead of returning without a view.
C11_EmptyRecvFatal ==
    [][(RunStep /\ chan[last'.cell] = <<>>)
        => /\ diag = "none"
           /\ diag' = "empty_recv"
           /\ last'.got = NoView]_vars

\* an Outlet that had rendered a view ran again on an empty channel
C11_Witness ==
    /\ last.op = "run"
    /\ diag = "empty_recv"
    /\ chan[last.cell] = <<>>
    /\ rendered[last.cell] # NoRender

\* C12 - non-blocking consumer, as claimed: a run of the Outlet closure
\* that finds no view in its channel does not fail and leaves what is
\* displayed as it was.
C12_EmptyRunHarmless ==
    (last.op = "run" /\ last.got = NoView)
        => diag = "none"

\* C12, amended - the receive is a try_recv, so a run of the Outlet closure
\* always completes in its step, with a view or with a panic; a run that
\* finds no view leaves the channel, what the Outlet displays and the
\* constructors that have run as they were, but it ends in the
\* empty-receive panic instead of returning.
C12_NonBlockingButFatal ==
    [][RunStep =>
        /\ (last'.got # NoView) <=> (chan[last'.cell] # <<>>)
        /\ (last'.got = NoView) <=> (diag' # "none")
        /\ chan[last'.cell] = <<>> =>
            /\ rendered' = rendered
            /\ invokes' = invokes
            /\ chan' = chan
            /\ outlets' = outlets]_vars

\* an un-woken run found nothing; the view rendered before is still there
C12_Witness ==
    /\ last.op = "run"
    /\ ~last.woken
    /\ last.got = NoView
    /\ diag # "none"
    /\ rendered[last.cell].view.n = sent[last.cell]


BuildTimeView(d) ==
    [view |-> [id |-> route[d].id, cell |-> outlets[d].tx, n |-> 1],
     owner |-> outlets[d].owner]

ParentScope(os, d) == IF d = 1 THEN OuterOwner ELSE os[d - 1].owner

\* C14 - scope tree.  In every state the owner of the outlet at depth d is
\* a child of the owner that the outlet one depth up holds now, and the
\* owner of the top outlet is a child of outer_owner.
C14_ScopeTree ==
    \A d \in 1..Len(outlets) :
        /\ outlets[d].owner \in 2..Len(ownerParent)
        /\ ownerParent[outlets[d].owner] = ParentScope(outlets, d)

\* a rebuild replaced the route at depth 2 and built a new depth 3 under it
C14_Witness ==
    /\ last.op = "rebuild"
    /\ Len(outlets) = 3
    /\ \E i, j \in 1..Len(log) :
        /\ i < j
        /\ log[i].op = "fire" /\ log[i].depth = 2
        /\ log[j].op = "build" /\ log[j].depth = 3
    /\ ownerParent[outlets[3].owner] = outlets[2].owner
    /\ ownerParent[outlets[2].owner] = outlets[1].owner


Min(a, b) == IF a < b THEN a ELSE b

\* the depths at which the walk of `chain` over the vector `os` finds a
\* stored id that differs, all shallower ids being equal (none or one)
FirstDiff(chain, os) ==
    {k \in 1..Min(Len(chain), Len(os)) :
        /\ chain[k].id # os[k].id
        /\ \A j \in 1..(k - 1) : chain[j].id = os[j].id}

\* the outlet at depth d of the next state was made by this step
FreshOutlet(d) ==
    /\ outlets'[d].tx > Len(chan)
    /\ outlets'[d].rx = outlets'[d].tx
    /\ outlets'[d].trigger = outlets'[d].tx
    /\ outlets'[d].params = outlets'[d].tx
    /\ outlets'[d].owner > Len(ownerParent)
    /\ ownerParent'[outlets'[d].owner] = ParentScope(outlets', d)
    /\ outlets'[d].id = route'[d].id
    /\ paramsSig'[outlets'[d].params] = route'[d].params
    /\ sent'[outlets'[d].tx] = 1
    /\ fired'[outlets'[d].trigger] = 0
    /\ rxSlot'[outlets'[d].rx]
    /\ chan'[outlets'[d].tx] =
         << [view |-> [id |-> route'[d].id, cell |-> outlets'[d].tx, n |-> 1],
             owner |-> outlets'[d].owner] >>

\* C15 - replacement step.  When a rebuild finds at depth K a stored id
\* that differs from the new match's id, afterwards the outlet at K stores
\* the new id, keeps its channel, trigger and params container, holds a new
\* owner that is a child of the parent owner and is not the old owner, has
\* had exactly one view sent on its channel and its trigger fired exactly
\* once; the stack is as long as the new chain and every depth below K is
\* a freshly built outlet.
C15_ReplacementStep ==
    [][RebuildStep =>
        \A K \in FirstDiff(route', outlets) :
            LET c == outlets[K].tx
            IN  /\ outlets'[K].id = route'[K].id
                /\ outlets'[K].tx = c
                /\ outlets'[K].rx = outlets[K].rx
                /\ outlets'[K].trigger = outlets[K].trigger
                /\ outlets'[K].params = outlets[K].params
                /\ outlets'[K].owner > Len(ownerParent)
                /\ outlets'[K].owner # outlets[K].owner
                /\ ownerParent'[outlets'[K].owner] = ParentScope(outlets, K)
                /\ sent'[c] = sent[c] + 1
                /\ fired'[outlets[K].trigger] = fired[outlets[K].trigger] + 1
                /\ chan'[c] = Append(chan[c],
                      [view |-> [id |-> route'[K].id, cell |-> c,
                                 n |-> sent[c] + 1],
                       owner |-> outlets'[K].owner])
                /\ SubSeq(outlets', 1, K - 1) = SubSeq(outlets, 1, K - 1)
                /\ Len(outlets') = Len(route')
                /\ \A d \in (K + 1)..Len(outlets') : FreshOutlet(d)
    ]_vars

\* a rebuild replaced the route at depth 2, dropped the old depth 3 and
\* built a new depth 3 under the new owner
C15_Witness ==
    /\ last.op = "rebuild"
    /\ Len(outlets) = 3
    /\ \E i, j \in 1..Len(log) :
        /\ i < j
        /\ log[i].op = "fire" /\ log[i].depth = 2
        /\ log[j].op = "truncate" /\ Len(log[j].stack) = 3
        /\ outlets[3].tx \notin {log[j].stack[k] : k \in 1..3}
    /\ fired[outlets[2].trigger] >= 1
    /\ sent[outlets[2].tx] >= 2
    /\ sent[outlets[3].tx] = 1
    /\ fired[outlets[3].trigger] = 0


\* the context an <Outlet/> placed in the view of depth d - 1 resolves to
ResolvedAt(d) == use_context(Machine, ParentScope(outlets, d))

\* C16 - context resolution.  In every state, for every depth d of the
\* stack, the lookup made from the owner of depth d - 1 (outer_owner for
\* the top depth) finds a context, and that context shares its sender,
\* receiver slot, trigger and params signal with the outlet stored at depth
\* d, and with no outlet stored at another depth.
C16_ContextResolution ==
    \A d \in 1..Len(outlets) :
        /\ ResolvedAt(d) # <<>>
        /\ ResolvedAt(d)[1].tx = outlets[d].tx
        /\ ResolvedAt(d)[1].rx = outlets[d].rx
        /\ ResolvedAt(d)[1].trigger = outlets[d].trigger
        /\ ResolvedAt(d)[1].params = outlets[d].params
        /\ \A e \in 1..Len(outlets) :
              e # d => ResolvedAt(d)[1].rx # outlets[e].rx

\* after a rebuild that replaced the route at depth 1, an <Outlet/> mounted
\* in the new view of depth 1 claimed the receiver of the outlet at depth 2
C16_Witness ==
    /\ last.op = "mount"
    /\ diag = "none"
    /\ nreb >= 1
    /\ Len(outlets) >= 2
    /\ fired[outlets[1].trigger] >= 1
    /\ last.cell = outlets[2].rx
    /\ ~rxSlot[outlets[2].rx]
    /\ cstate[outlets[2].rx] = "mounted"
    /\ rendered[outlets[1].rx].owner = outlets[1].owner


\* the first run of the closure of the Outlet that claimed cell c
FirstRun(c) == RunStep /\ last'.cell = c /\ cstate[c] = "mounted"

Growth(chain, os) ==
    /\ Len(chain) > Len(os)
    /\ \A d \in 1..Len(os) : chain[d].id = os[d].id

\* C18 - append on growth.  When a rebuild walks past the end of the stack
\* with every stored id equal, the remaining match nodes are built as in an
\* initial build and appended; every outlet already in the stack keeps its
\* id, owner, channel and trigger, no trigger that existed before fires and
\* no view is sent on a channel that existed before.
C18_AppendOnGrowth ==
    [][(RebuildStep /\ Growth(route', outlets)) =>
        /\ Len(outlets') = Len(route')
        /\ SubSeq(outlets', 1, Len(outlets)) = outlets
        /\ \A c \in 1..Len(chan) :
              /\ chan'[c] = chan[c]
              /\ sent'[c] = sent[c]
              /\ fired'[c] = fired[c]
              /\ rxSlot'[c] = rxSlot[c]
        /\ SubSeq(ownerParent', 1, Len(ownerParent)) = ownerParent
        /\ \A d \in (Len(outlets) + 1)..Len(outlets') : FreshOutlet(d)
    ]_vars

\* a rebuild kept the one outlet of the stack and appended two depths
C18_Witness ==
    /\ last.op = "rebuild"
    /\ Len(outlets) = 3
    /\ Len(log) >= 2
    /\ log[1].op = "params" /\ log[1].depth = 1
    /\ log[2].op = "build" /\ log[2].depth = 2
    /\ log[2].stack = <<outlets[1].tx>>
    /\ \A i \in 1..Len(log) : log[i].op \notin {"fire", "truncate"}
    /\ \E i \in 1..Len(log) : log[i].op = "build" /\ log[i].depth = 3


\* C19 - prefix agreement.  After a rebuild with a Some match, from any
\* stack the program can be in, stale deeper entries included, every depth
\* of the new chain has an outlet, whose id is the id of the match node at
\* that depth and whose params signal holds that node's params.
C19_PrefixAgreement ==
    (last.op = "rebuild" /\ route # <<>>) =>
        /\ Len(outlets) >= Len(route)
        /\ \A d \in 1..Len(route) :
              /\ outlets[d].id = route[d].id
              /\ paramsSig[outlets[d].params] = route[d].params

\* the rebuild started from a stack with stale deeper entries (the params
\* it found at depth 3 were older than those at depth 1), walked down to
\* depth 3 and replaced the stale route there
C19_Witness ==
    /\ last.op = "rebuild"
    /\ Len(route) = 3
    /\ \E i, j, k \in 1..Len(log) :
        /\ log[i].op = "params" /\ log[i].depth = 1
        /\ log[j].op = "params" /\ log[j].depth = 3
        /\ log[i].params[2] # log[j].params[2]
        /\ log[k].op = "fire" /\ log[k].depth = 3
    /\ outlets[3].id = route[3].id
    /\ paramsSig[outlets[3].params] = route[3].params


\* the triggers whose fire count this step changed
FiredNow ==
    {c \in 1..Len(fired') :
        fired'[c] # (IF c <= Len(fired) THEN fired[c] ELSE 0)}

\* C20 - at most one wake per rebuild.  A rebuild fires no trigger but the
\* trigger of the shallowest depth whose stored id differs from the new
\* match's id, and fires that one once: nothing fires at the depths above
\* it, at the depths rebuilt below it or at depths appended by growth, and
\* a rebuild with a None match fires nothing.
C20_AtMostOneWake ==
    [][RebuildStep =>
        /\ FiredNow = {outlets[K].trigger : K \in FirstDiff(route', outlets)}
        /\ Cardinality(FiredNow) <= 1
        /\ \A c \in FiredNow : fired'[c] = fired[c] + 1
        /\ route' = <<>> => FiredNow = {}
        /\ Growth(route', outlets) => FiredNow = {}
    ]_vars

\* a rebuild replaced the route at depth 2 below a kept depth 1 and rebuilt
\* depth 3: one fire in all, and only the trigger of depth 2 has ever fired
C20_Witness ==
    /\ last.op = "rebuild"
    /\ Len(outlets) = 3
    /\ Cardinality({i \in 1..Len(log) : log[i].op = "fire"}) = 1
    /\ \E i \in 1..Len(log) :
          /\ log[i].op = "fire"
          /\ log[i].depth = 2
          /\ log[i].cell = outlets[2].trigger
    /\ \E i \in 1..Len(log) : log[i].op = "params" /\ log[i].depth = 1
    /\ fired[outlets[1].trigger] = 0
    /\ fired[outlets[2].trigger] = 1
    /\ fired[outlets[3].trigger] = 0


\* the rebuild walk of `chain` over `os` stays on stored entries with equal
\* ids all the way: a same-id prefix of the stack, or the whole of it
KeptWalk(chain, os) ==
    /\ chain # <<>>
    /\ Len(chain) <= Len(os)
    /\ \A d \in 1..Len(chain) : chain[d].id = os[d].id

\* C21 - shrink then regrow.  A rebuild whose chain is a same-id prefix of
\* the stack (the shrink) and a rebuild whose chain has, at every depth,
\* the id the stack stores there (the regrow) both leave every entry of the
\* stack in place, deeper ones included, with its channel, trigger and
\* owner; neither sends a view, fires or wakes a trigger, so what each
\* Outlet has rendered stays as it was across the two navigations.
C21_ShrinkRegrowReuse ==
    [][(RebuildStep /\ KeptWalk(route', outlets)) =>
        /\ outlets' = outlets
        /\ chan' = chan
        /\ sent' = sent
        /\ fired' = fired
        /\ woken' = woken
        /\ rendered' = rendered
        /\ invokes' = invokes
        /\ rxSlot' = rxSlot
        /\ cstate' = cstate
        /\ ownerParent' = ownerParent
        /\ ownerCtx' = ownerCtx
    ]_vars

\* the Outlet of depth 3 rendered the build-time view, a rebuild shrank the
\* match to a same-id prefix, and the last rebuild regrew it over the
\* entries still stored: depth 3 holds the cell build made, with one view
\* ever sent and no fire, and the Outlet still shows that view
C21_Witness ==
    /\ last.op = "rebuild"
    /\ nreb = 2
    /\ prevLen \in 1..2
    /\ Len(route) = 3
    /\ Len(outlets) = 3
    /\ \A i \in 1..Len(log) : log[i].op = "params"
    /\ Len(log) = 3
    /\ outlets[3].tx = 3
    /\ sent[outlets[3].tx] = 1
    /\ fired[outlets[3].trigger] = 0
    /\ rendered[outlets[3].rx] =
          [view |-> [id |-> route[3].id, cell |-> outlets[3].rx, n |-> 1],
           owner |-> outlets[3].owner]


\* the deepest depth of the current match
LeafDepth == Len(route)

\* an <Outlet/> is mounted in the view of the deepest matched depth: that
\* depth's Outlet has claimed its receiver and shows a view of the current
\* route instance, and the mount runs under that instance's owner
MountInLeafView ==
    /\ MountStep
    /\ route # <<>>
    /\ Len(outlets) >= LeafDepth
    /\ ~rxSlot[outlets[LeafDepth].rx]
    /\ rendered[outlets[LeafDepth].rx].owner = outlets[LeafDepth].owner
    /\ last'.scope = outlets[LeafDepth].owner

\* C22 - Outlet in a leaf route.  An <Outlet/> mounted in the view of the
\* deepest matched depth, after that depth's Outlet claimed its receiver,
\* resolves to that depth's own context and panics with the diagnostic of
\* the claimed receiver, not with the one of the missing context.
C22_LeafOutletFatal ==
    [][MountInLeafView =>
        /\ last'.cell = outlets[LeafDepth].rx
        /\ diag' = "rx_taken"
    ]_vars

\* the same for a leaf depth under whose owner no context was ever provided
C22_LeafOutletFatalNoStaleContext ==
    [][(MountInLeafView /\ ownerCtx[outlets[LeafDepth].owner] = <<>>) =>
        /\ last'.cell = outlets[LeafDepth].rx
        /\ diag' = "rx_taken"
    ]_vars

====
